---- MODULE Spec2Model ----
(***************************************************************************)
(* The gcode lexical pipeline: Lexer (src/gcode/src/lexer.rs) turns the    *)
(* source text into tokens, WordsOrComments (src/gcode/src/words.rs)       *)
(* groups tokens into atoms.                                               *)
(*                                                                         *)
(* The source text is a sequence of bytes.  Every character of the model   *)
(* alphabet is one byte long except one two-byte character (lead byte      *)
(* "C3", continuation byte "A9"), so that byte offsets and character       *)
(* boundaries differ as they do in a Rust &str.                            *)
(***************************************************************************)
EXTENDS Integers, Sequences, FiniteSets, TLC

\* Longest input, in characters.
MaxLen == 4
\* How many more times next() is called after it first returned None.
MaxExtraCalls == 2

Lead == "C3"
Cont == "A9"
\* One representative per branch of TokenType::from and of the closures.
Chars == {"G", "9", "0", ".", "-", "(", ")", ";", "\n", " ", "$", Lead}

RECURSIVE Encode(_)
Encode(cs) ==
    IF cs = <<>> THEN <<>>
    ELSE (IF Head(cs) = Lead THEN <<Lead, Cont>> ELSE <<Head(cs)>>)
             \o Encode(Tail(cs))

Inputs == UNION {[1..n -> Chars] : n \in 0..MaxLen}

VARIABLES
    src,               \* Lexer.src, as bytes
    current_position,  \* Lexer.current_position (byte offset)
    current_line,      \* Lexer.current_line
    last_letter,       \* WordsOrComments.last_letter (NullToken is None)
    status,            \* "running", or "panicked" once a call has panicked
    panic_site,        \* which expect/unwrap/slice panicked
    ret_token,         \* what the last call of Lexer::next returned
    ret_atom,          \* what the last call of WordsOrComments::next returned
    lexer_done,        \* the lexer has returned None
    ended,             \* how many calls have returned None
    tokens,            \* history: the tokens Lexer::next has returned
    skipped,           \* history: the offsets skip_whitespace has passed
    atoms,             \* history: the atoms WordsOrComments::next returned
    atom_toks          \* history: per atom, the indices of its tokens

vars == <<src, current_position, current_line, last_letter, status,
          panic_site, ret_token, ret_atom, lexer_done, ended, tokens,
          skipped, atoms, atom_toks>>

----------------------------------------------------------------------------
(* Characters and string slices *)

SrcLen == Len(src)

\* str::is_char_boundary
IsCharBoundary(p) == p = 0 \/ p = SrcLen \/ (p < SrcLen /\ src[p + 1] # Cont)

\* the character starting at byte offset p, named by its first byte
CharAt(p) == src[p + 1]

\* char::len_utf8
LenUtf8(c) == IF c = Lead THEN 2 ELSE 1

\* &self.src[a..b]
Slice(a, b) == SubSeq(src, a + 1, b)

is_ascii_alphabetic(c) == c = "G"
is_ascii_digit(c) == c \in {"9", "0"}
\* char::is_whitespace
is_whitespace(c) == c \in {" ", "\n"}

\* impl From<char> for TokenType
TokenTypeFrom(c) ==
    IF is_ascii_alphabetic(c) THEN "Letter"
    ELSE IF is_ascii_digit(c) \/ c = "." \/ c = "-" \/ c = "+" THEN "Number"
    ELSE IF c = "(" \/ c = ";" \/ c = ")" THEN "Comment"
    ELSE IF c = "\n" THEN "Newline"
    ELSE "Unknown"

----------------------------------------------------------------------------
(* Tokens *)

Span(s, e, l) == [start |-> s, end |-> e, line |-> l]
Token(k, v, sp) == [kind |-> k, value |-> v, span |-> sp]
\* Option::None of a Token
NullToken == Token("None", <<>>, Span(0, 0, 0))

----------------------------------------------------------------------------
(* Lexer *)

finished(pos) == pos >= SrcLen

\* rest() slices the source at the cursor: it panics when the cursor is
\* inside a character
RestPanics(pos) == ~finished(pos) /\ ~IsCharBoundary(pos)

\* peek(): "" is None
peek(pos) == IF finished(pos) THEN "" ELSE TokenTypeFrom(CharAt(pos))

\* the loop of chomp for a predicate without state: the end offset
RECURSIVE ChompEnd(_, _)
ChompEnd(end, accept) ==
    IF finished(end) THEN end
    ELSE LET letter == CharAt(end) IN
         IF letter \notin accept THEN end
         ELSE IF letter = "\n" THEN end
         ELSE ChompEnd(end + LenUtf8(letter), accept)

\* the predicate skip_whitespace passes to chomp
WhitespacePredicate == {c \in Chars : is_whitespace(c)}

\* chomp without its break on '\n'
RECURSIVE ChompEndThroughNewline(_, _)
ChompEndThroughNewline(end, accept) ==
    IF finished(end) THEN end
    ELSE IF CharAt(end) \notin accept THEN end
    ELSE ChompEndThroughNewline(end + LenUtf8(CharAt(end)), accept)

\* skip_whitespace over a chomp that does not stop at '\n'
skip_whitespace_and_newlines(pos) ==
    ChompEndThroughNewline(pos, WhitespacePredicate)

skip_whitespace(pos) == ChompEnd(pos, WhitespacePredicate)

\* the closure without `letters_seen == 1`: a sign is accepted anywhere
NumberClosureSignAnywhere(c, letters_seen, decimal_seen) ==
    LET is_sign == c = "-" \/ c = "+" IN
    IF is_sign \/ is_ascii_digit(c)
    THEN [accept |-> TRUE, decimal_seen |-> decimal_seen]
    ELSE IF c = "." /\ ~decimal_seen
    THEN [accept |-> TRUE, decimal_seen |-> TRUE]
    ELSE [accept |-> FALSE, decimal_seen |-> decimal_seen]

\* the closure tokenize_number passes to chomp, called on c with the
\* captured letters_seen (already incremented) and decimal_seen: whether it
\* accepts c, and decimal_seen afterwards
NumberClosure(c, letters_seen, decimal_seen) ==
    LET is_sign == c = "-" \/ c = "+" IN
    IF (is_sign /\ letters_seen = 1) \/ is_ascii_digit(c)
    THEN [accept |-> TRUE, decimal_seen |-> decimal_seen]
    ELSE IF c = "." /\ ~decimal_seen
    THEN [accept |-> TRUE, decimal_seen |-> TRUE]
    ELSE [accept |-> FALSE, decimal_seen |-> decimal_seen]

\* the loop of chomp under the closure of tokenize_number
RECURSIVE NumberChompEnd(_, _, _)
NumberChompEnd(end, letters_seen, decimal_seen) ==
    IF finished(end) THEN end
    ELSE LET letter == CharAt(end)
             p == NumberClosure(letter, letters_seen + 1, decimal_seen)
         IN  IF ~p.accept THEN end
             ELSE IF letter = "\n" THEN end
             ELSE NumberChompEnd(end + LenUtf8(letter), letters_seen + 1,
                                 p.decimal_seen)

\* Results of a tokenize_* call: the token (NullToken is None) and the
\* lexer's fields afterwards
LexResult(tok, pos, line) == [tok |-> tok, pos |-> pos, line |-> line]

CommentPredicate == Chars \ {"\n"}
ParenPredicate == Chars \ {"\n", ")"}

\* tokenize_comment that counts the line when a line break cuts the
\* parenthesis comment off
tokenize_comment_counts_line(pos, line) ==
    LET start == pos IN
    IF ~finished(pos) /\ CharAt(pos) = ";" THEN
        LET end == ChompEnd(pos, CommentPredicate)
            comment == IF end = start THEN <<>> ELSE Slice(start, end)
        IN  LexResult(Token("Comment", comment, Span(start, end, line)),
                      end, line)
    ELSE IF ~finished(pos) /\ CharAt(pos) = "(" THEN
        LET body == ChompEnd(pos, ParenPredicate)
            pk   == peek(body)
            kind == IF pk = "" THEN "Unknown" ELSE pk
            end  == IF kind = "Comment" THEN body + 1 ELSE body
        IN  LexResult(Token(kind, Slice(start, end), Span(start, end, line)),
                      end, IF kind = "Newline" THEN line + 1 ELSE line)
    ELSE LexResult(NullToken, pos, line)

\* tokenize_comment that does not consume the closing paren
tokenize_comment_keeps_paren(pos, line) ==
    LET start == pos IN
    IF ~finished(pos) /\ CharAt(pos) = ";" THEN
        LET end == ChompEnd(pos, CommentPredicate)
            comment == IF end = start THEN <<>> ELSE Slice(start, end)
        IN  LexResult(Token("Comment", comment, Span(start, end, line)),
                      end, line)
    ELSE IF ~finished(pos) /\ CharAt(pos) = "(" THEN
        LET body == ChompEnd(pos, ParenPredicate)
            pk   == peek(body)
            kind == IF pk = "" THEN "Unknown" ELSE pk
            end  == body
        IN  LexResult(Token(kind, Slice(start, end), Span(start, end, line)),
                      end, line)
    ELSE LexResult(NullToken, pos, line)

\* tokenize_comment whose ';' comment also stops at a ')'
tokenize_comment_semicolon_to_paren(pos, line) ==
    LET start == pos IN
    IF ~finished(pos) /\ CharAt(pos) = ";" THEN
        LET end == ChompEnd(pos, ParenPredicate)
            comment == IF end = start THEN <<>> ELSE Slice(start, end)
        IN  LexResult(Token("Comment", comment, Span(start, end, line)),
                      end, line)
    ELSE IF ~finished(pos) /\ CharAt(pos) = "(" THEN
        LET body == ChompEnd(pos, ParenPredicate)
            pk   == peek(body)
            kind == IF pk = "" THEN "Unknown" ELSE pk
            end  == IF kind = "Comment" THEN body + 1 ELSE body
        IN  LexResult(Token(kind, Slice(start, end), Span(start, end, line)),
                      end, line)
    ELSE LexResult(NullToken, pos, line)

tokenize_comment(pos, line) ==
    LET start == pos IN
    IF ~finished(pos) /\ CharAt(pos) = ";" THEN
        LET end == ChompEnd(pos, CommentPredicate)
            comment == IF end = start THEN <<>> ELSE Slice(start, end)
        IN  LexResult(Token("Comment", comment, Span(start, end, line)),
                      end, line)
    ELSE IF ~finished(pos) /\ CharAt(pos) = "(" THEN
        LET body == ChompEnd(pos, ParenPredicate)
            pk   == peek(body)
            kind == IF pk = "" THEN "Unknown" ELSE pk
            end  == IF kind = "Comment" THEN body + 1 ELSE body
        IN  LexResult(Token(kind, Slice(start, end), Span(start, end, line)),
                      end, line)
    ELSE LexResult(NullToken, pos, line)

\* tokenize_letter that slices `start..start` instead of `start..=start`
tokenize_letter_empty_value(pos, line) ==
    LET start == pos IN
    IF finished(pos) THEN LexResult(NullToken, pos, line)
    ELSE IF is_ascii_alphabetic(CharAt(pos)) THEN
        LexResult(Token("Letter", Slice(start, start),
                        Span(start, start + 1, line)),
                  pos + 1, line)
    ELSE LexResult(NullToken, pos, line)

tokenize_letter(pos, line) ==
    LET start == pos IN
    IF finished(pos) THEN LexResult(NullToken, pos, line)
    ELSE IF is_ascii_alphabetic(CharAt(pos)) THEN
        LexResult(Token("Letter", Slice(start, start + 1),
                        Span(start, start + 1, line)),
                  pos + 1, line)
    ELSE LexResult(NullToken, pos, line)

tokenize_number(pos, line) ==
    LET start == pos
        end == NumberChompEnd(pos, 0, FALSE)
    IN  IF end = start THEN LexResult(NullToken, pos, line)
        ELSE LexResult(Token("Number", Slice(start, end),
                             Span(start, end, line)),
                       end, line)

\* tokenize_newline that forgets `self.current_line += 1`
tokenize_newline_same_line(pos, line) ==
    LexResult(Token("Newline", <<"\n">>, Span(pos, pos + 1, line)),
              pos + 1, line)

tokenize_newline(pos, line) ==
    LET start == pos IN
    LexResult(Token("Newline", <<"\n">>, Span(start, start + 1, line)),
              pos + 1, line + 1)

\* Outcome of Lexer::next: st is "some", "none" or the panic site
NextResult(st, tok, pos, line) ==
    [st |-> st, tok |-> tok, pos |-> pos, line |-> line]

\* .expect(MSG) on the result of a tokenize_* call
Expect(r) ==
    IF r.tok = NullToken
    THEN NextResult("lexer_expect", NullToken, r.pos, r.line)
    ELSE NextResult("some", r.tok, r.pos, r.line)

\* the body of the while-let loop for one peeked kind, Unknown excluded
Dispatch(kind, pos, line) ==
    CASE kind = "Comment" -> Expect(tokenize_comment(pos, line))
      [] kind = "Letter"  -> Expect(tokenize_letter(pos, line))
      [] kind = "Number"  -> Expect(tokenize_number(pos, line))
      [] kind = "Newline" -> Expect(tokenize_newline(pos, line))

\* the garbage check without `kind != TokenType::Unknown`
GarbageDoneAnyKind(kind, pos, start) == pos # start

\* `kind != TokenType::Unknown && self.current_position != start`
GarbageDone(kind, pos, start) == kind # "Unknown" /\ pos # start

\* the step of the loop on a character of class Unknown
UnknownAdvance(pos) == pos + 1

\* the while-let loop of Lexer::next and the code after it
RECURSIVE LexerLoop(_, _, _)
LexerLoop(start, pos, line) ==
    IF RestPanics(pos) THEN NextResult("lexer_slice", NullToken, pos, line)
    ELSE IF finished(pos) THEN
        IF pos # start
        THEN NextResult("some",
                        Token("Unknown", Slice(start, SrcLen),
                              Span(start, pos, line)),
                        pos, line)
        ELSE NextResult("none", NullToken, pos, line)
    ELSE LET kind == peek(pos) IN
         IF GarbageDone(kind, pos, start)
         THEN NextResult("some",
                         Token("Unknown", Slice(start, pos),
                               Span(start, pos, line)),
                         pos, line)
         ELSE IF kind = "Unknown"
         THEN LexerLoop(start, UnknownAdvance(pos), line)
         ELSE Dispatch(kind, pos, line)

\* Lexer::next
LexerNext(pos, line) ==
    LexerLoop(skip_whitespace(pos), skip_whitespace(pos), line)

----------------------------------------------------------------------------
(* Numbers: str::parse::<f32> *)

DigitValue(c) == IF c = "9" THEN 9 ELSE 0

\* the digits of a text, read as one decimal integer
RECURSIVE DigitsValue(_, _)
DigitsValue(s, acc) ==
    IF s = <<>> THEN acc
    ELSE DigitsValue(Tail(s),
                     IF is_ascii_digit(Head(s))
                     THEN 10 * acc + DigitValue(Head(s)) ELSE acc)

\* a decimal mant / 10^scale without trailing fraction zeros
RECURSIVE Normalise(_, _)
Normalise(mant, scale) ==
    IF scale > 0 /\ mant % 10 = 0 THEN Normalise(mant \div 10, scale - 1)
    ELSE [mant |-> mant, scale |-> scale]

\* The value of a float: sign and decimal mant / 10^scale; zero has no sign
\* (0.0 == -0.0).
Float(neg, mant, scale) ==
    LET n == Normalise(mant, scale) IN
    [ok |-> TRUE, neg |-> neg /\ n.mant # 0, mant |-> n.mant, scale |-> n.scale]

\* Err(ParseFloatError)
ParseError == [ok |-> FALSE, neg |-> FALSE, mant |-> 0, scale |-> 0]

\* str::parse::<f32> on the texts the alphabet can spell: an optional sign,
\* then digits with at most one '.', and at least one digit
ParseF32(text) ==
    LET signed == text # <<>> /\ Head(text) \in {"-", "+"}
        body   == IF signed THEN Tail(text) ELSE text
        dots   == {i \in DOMAIN body : body[i] = "."}
        digits == {i \in DOMAIN body : is_ascii_digit(body[i])}
    IN  IF /\ \A i \in DOMAIN body : i \in dots \cup digits
           /\ Cardinality(dots) <= 1
           /\ digits # {}
        THEN Float(signed /\ Head(text) = "-",
                   DigitsValue(body, 0),
                   IF dots = {} THEN 0
                   ELSE Len(body) - (CHOOSE i \in dots : TRUE))
        ELSE ParseError

----------------------------------------------------------------------------
(* Atoms *)

Min(a, b) == IF a <= b THEN a ELSE b
Max(a, b) == IF a >= b THEN a ELSE b

\* Span::merge: the smallest span covering both
SpanMerge(a, b) ==
    Span(Min(a.start, b.start), Max(a.end, b.end), Min(a.line, b.line))

NoValue == ParseError

\* Atom::Word(Word { letter, value, span })
AtomWord(letter, value, span) ==
    [type |-> "Word", letter |-> letter, value |-> value, span |-> span,
     text |-> <<>>, token |-> NullToken]

\* Atom::Comment(Comment { value, span })
AtomComment(value, span) ==
    [type |-> "Comment", letter |-> "", value |-> NoValue, span |-> span,
     text |-> value, token |-> NullToken]

\* Atom::Newline(token), Atom::BrokenWord(token), Atom::Unknown(token)
AtomOf(type, token) ==
    [type |-> type, letter |-> "", value |-> NoValue, span |-> token.span,
     text |-> token.value, token |-> token]

\* Option::None of an Atom
NullAtom == AtomOf("None", NullToken)

----------------------------------------------------------------------------
(* WordsOrComments *)

\* Outcome of one pass of the while-let body: st is "some" (return the
\* atom), "continue" (pull the next token) or the panic site
Arm(st, atom, pending) == [st |-> st, atom |-> atom, last_letter |-> pending]

\* a take() that leaves the letter in the slot
TakeKeeps(pending) == pending

\* self.last_letter.take(): what is left in the slot
Take(pending) == NullToken

\* the arm `TokenType::Number if self.last_letter.is_some()`
NumberArm(token, pending) ==
    LET letter_token == pending
        span   == SpanMerge(letter_token.span, token.span)
        letter == Head(letter_token.value)
        value  == ParseF32(token.value)
    IN  IF ~value.ok THEN Arm("words_parse", NullAtom, Take(pending))
        ELSE Arm("some", AtomWord(letter, value, span), Take(pending))

\* the arms that forward a token: Unknown, Newline, Comment
PassThrough(token, pending) ==
    CASE token.kind = "Unknown" -> Arm("some", AtomOf("Unknown", token), pending)
      [] token.kind = "Newline" -> Arm("some", AtomOf("Newline", token), pending)
      [] token.kind = "Comment" ->
            Arm("some", AtomComment(token.value, token.span), pending)

\* the match with a fallback arm that also empties the slot
MatchClearsOnBroken(token, pending) ==
    IF token.kind \in {"Unknown", "Newline", "Comment"}
    THEN PassThrough(token, pending)
    ELSE IF token.kind = "Letter" /\ pending = NullToken
    THEN Arm("continue", NullAtom, token)
    ELSE IF token.kind = "Number" /\ pending # NullToken
    THEN NumberArm(token, pending)
    ELSE Arm("some", AtomOf("BrokenWord", token), NullToken)

\* the match with a Letter arm without its `is_none()` guard: a new letter
\* replaces the pending one
MatchOverwritesPending(token, pending) ==
    IF token.kind \in {"Unknown", "Newline", "Comment"}
    THEN PassThrough(token, pending)
    ELSE IF token.kind = "Letter"
    THEN Arm("continue", NullAtom, token)
    ELSE IF token.kind = "Number" /\ pending # NullToken
    THEN NumberArm(token, pending)
    ELSE Arm("some", AtomOf("BrokenWord", token), pending)

\* the match on the kind of a token just pulled
Match(token, pending) ==
    IF token.kind \in {"Unknown", "Newline", "Comment"}
    THEN PassThrough(token, pending)
    ELSE IF token.kind = "Letter" /\ pending = NullToken
    THEN Arm("continue", NullAtom, token)
    ELSE IF token.kind = "Number" /\ pending # NullToken
    THEN NumberArm(token, pending)
    ELSE Arm("some", AtomOf("BrokenWord", token), pending)

\* the flush through a copy of the slot instead of take()
FlushKeeps(pending) ==
    IF pending = NullToken THEN Arm("none", NullAtom, pending)
    ELSE Arm("some", AtomOf("BrokenWord", pending), pending)

\* self.last_letter.take().map(Atom::BrokenWord)
Flush(pending) ==
    IF pending = NullToken THEN Arm("none", NullAtom, Take(pending))
    ELSE Arm("some", AtomOf("BrokenWord", pending), Take(pending))

\* Outcome of WordsOrComments::next: the lexer's fields and the slot
\* afterwards, the tokens pulled and the offsets skipped by this call, and
\* `flushed`: whether the lexer returned None in this call
WordsResult(arm, pos, line, pulled, skp, flushed) ==
    [st |-> arm.st, atom |-> arm.atom, last_letter |-> arm.last_letter,
     pos |-> pos, line |-> line, pulled |-> pulled, skipped |-> skp,
     flushed |-> flushed]

\* WordsOrComments::next: the while-let loop and the flush after it
RECURSIVE WordsLoop(_, _, _, _, _)
WordsLoop(pos, line, pending, pulled, skp) ==
    LET r    == LexerNext(pos, line)
        skp2 == skp \cup (pos .. skip_whitespace(pos) - 1)
    IN  IF r.st = "none"
        THEN WordsResult(Flush(pending), r.pos, r.line, pulled, skp2, TRUE)
        ELSE IF r.st # "some"
        THEN WordsResult(Arm(r.st, NullAtom, pending), r.pos, r.line,
                         pulled, skp2, FALSE)
        ELSE LET arm == Match(r.tok, pending) IN
             IF arm.st = "continue"
             THEN WordsLoop(r.pos, r.line, arm.last_letter,
                            Append(pulled, r.tok), skp2)
             ELSE WordsResult(arm, r.pos, r.line, Append(pulled, r.tok),
                              skp2, FALSE)

----------------------------------------------------------------------------
Init ==
    /\ \E cs \in Inputs : src = Encode(cs)
    /\ current_position = 0
    /\ current_line = 0
    /\ last_letter = NullToken
    /\ status = "running"
    /\ panic_site = "none"
    /\ ret_token = NullToken
    /\ ret_atom = NullAtom
    /\ lexer_done = FALSE
    /\ ended = 0
    /\ tokens = <<>>
    /\ skipped = {}
    /\ atoms = <<>>
    /\ atom_toks = <<>>

\* One call of Lexer::next on a lexer that is iterated directly
LexNext ==
    /\ status = "running"
    /\ ended <= MaxExtraCalls
    /\ LET r == LexerNext(current_position, current_line) IN
       /\ current_position' = r.pos
       /\ current_line' = r.line
       /\ skipped' = skipped \cup
                       (current_position .. skip_whitespace(current_position) - 1)
       /\ ret_token' = r.tok
       /\ lexer_done' = (lexer_done \/ r.st = "none")
       /\ tokens' = IF r.st = "some" THEN Append(tokens, r.tok) ELSE tokens
       /\ ended' = IF r.st = "none" THEN ended + 1 ELSE ended
       /\ status' = IF r.st \in {"some", "none"} THEN "running" ELSE "panicked"
       /\ panic_site' = IF r.st \in {"some", "none"} THEN "none" ELSE r.st
    /\ UNCHANGED <<src, last_letter, ret_atom, atoms, atom_toks>>

LexSpec == Init /\ [][LexNext]_vars

\* the index in the token history of a token (spans start at distinct
\* offsets)
TokenIndex(toks, t) == CHOOSE i \in DOMAIN toks : toks[i] = t

\* the tokens an atom carries, as indices of the token history
Carried(toks, atom, pending) ==
    IF atom.type = "Word" THEN <<TokenIndex(toks, pending), Len(toks)>>
    ELSE <<TokenIndex(toks, atom.token)>>

\* One call of WordsOrComments::next over a Lexer
WordsNext ==
    /\ status = "running"
    /\ ended <= MaxExtraCalls
    /\ LET r    == WordsLoop(current_position, current_line, last_letter,
                             <<>>, {})
           toks == tokens \o r.pulled
           \* the letter a Word pairs: pending before the number was read
           paired == IF last_letter # NullToken THEN last_letter
                     ELSE r.pulled[Len(r.pulled) - 1]
       IN
       /\ current_position' = r.pos
       /\ current_line' = r.line
       /\ skipped' = skipped \cup r.skipped
       /\ tokens' = toks
       /\ last_letter' = r.last_letter
       /\ ret_atom' = r.atom
       /\ ret_token' = IF r.pulled = <<>> THEN NullToken
                       ELSE r.pulled[Len(r.pulled)]
       /\ lexer_done' = (lexer_done \/ r.flushed)
       /\ atoms' = IF r.st = "some" THEN Append(atoms, r.atom) ELSE atoms
       /\ atom_toks' = IF r.st = "some"
                       THEN Append(atom_toks,
                                   IF r.atom.type = "Comment"
                                   THEN <<Len(toks)>>
                                   ELSE Carried(toks, r.atom, paired))
                       ELSE atom_toks
       /\ ended' = IF r.st = "none" THEN ended + 1 ELSE ended
       /\ status' = IF r.st \in {"some", "none"} THEN "running" ELSE "panicked"
       /\ panic_site' = IF r.st \in {"some", "none"} THEN "none" ELSE r.st
    /\ UNCHANGED src

Spec == Init /\ [][WordsNext]_vars

----------------------------------------------------------------------------
(* Properties *)

\* the class of the character the byte at offset b belongs to
ClassAt(b) == IF src[b + 1] = Cont THEN "Unknown" ELSE TokenTypeFrom(src[b + 1])
Offsets == 0 .. SrcLen - 1
Covered(t) == t.span.start .. t.span.end - 1
IsGenuineNewline(t) == t.kind = "Newline" /\ t.value = <<"\n">>

\* C1: every call of Lexer::next returns a token or None; no call panics,
\* whatever the class of the character at the cursor.
C1_LexerNextNeverPanics == status # "panicked"

\* C2: the text of every Number token parses as a number, so the grouper's
\* parse of a Number token paired with a pending letter never fails.
C2_NumberTokensParse ==
    /\ \A i \in DOMAIN tokens :
          tokens[i].kind = "Number" => ParseF32(tokens[i].value).ok
    /\ panic_site # "words_parse"

\* C3 as stated: the line of a token is the number of tokens of kind Newline
\* emitted before it.
C3_LineCountsNewlineKind ==
    \A i \in DOMAIN tokens :
        tokens[i].span.line =
            Cardinality({j \in 1 .. i - 1 : tokens[j].kind = "Newline"})

\* C3 amended: the line of a token is the number of Newline tokens of value
\* "\n" emitted before it; the Newline-tagged token of a parenthesis comment
\* cut off by a line break does not count.
C3_LineCountsGenuineNewlines ==
    \A i \in DOMAIN tokens :
        tokens[i].span.line =
            Cardinality({j \in 1 .. i - 1 : IsGenuineNewline(tokens[j])})

\* C3 witness: a token on line 1 that follows both a Newline-tagged comment
\* fragment and a genuine Newline token.
C3_Witness ==
    \E i \in DOMAIN tokens :
        /\ tokens[i].span.line = 1
        /\ \E j \in 1 .. i - 1 : IsGenuineNewline(tokens[j])
        /\ \E j \in 1 .. i - 1 :
              tokens[j].kind = "Newline" /\ ~IsGenuineNewline(tokens[j])

\* C4: once the lexer has returned None, the token spans are non-empty,
\* non-overlapping and strictly increasing in start offset, and the bytes in
\* no span are exactly the bytes skip_whitespace passed, all of them
\* whitespace other than '\n'; covered plus skipped bytes are the input.
C4_SpansPartitionInput ==
    ended >= 1 =>
        LET covered == UNION {Covered(tokens[i]) : i \in DOMAIN tokens} IN
        /\ \A i \in DOMAIN tokens :
              /\ tokens[i].span.start < tokens[i].span.end
              /\ i > 1 => /\ tokens[i - 1].span.end <= tokens[i].span.start
                          /\ tokens[i - 1].span.start < tokens[i].span.start
        /\ covered \cap skipped = {}
        /\ covered \cup skipped = Offsets
        /\ \A b \in skipped : is_whitespace(src[b + 1]) /\ src[b + 1] # "\n"
        /\ \A b \in Offsets \ covered : b \in skipped

\* C4 witness: a finished run with several tokens, whitespace skipped before
\* a token and whitespace skipped before the end of input.
C4_Witness ==
    /\ ended >= 1
    /\ Len(tokens) >= 2
    /\ \E b \in skipped : b < tokens[Len(tokens)].span.start
    /\ \E b \in skipped : b >= tokens[Len(tokens)].span.end

\* the maximal runs [a, b) of characters of class Unknown
IsUnknownRun(a, b) ==
    /\ a < b
    /\ \A k \in a .. b - 1 : ClassAt(k) = "Unknown"
    /\ a = 0 \/ ClassAt(a - 1) # "Unknown"
    /\ b = SrcLen \/ ClassAt(b) # "Unknown"
HasGarbage(a, b) == \E k \in a .. b - 1 : ~is_whitespace(src[k + 1])
FirstGarbage(a, b) ==
    CHOOSE k \in a .. b - 1 :
        /\ ~is_whitespace(src[k + 1])
        /\ \A m \in a .. k - 1 : is_whitespace(src[m + 1])
\* the tokens that overlap [a, b)
Overlapping(a, b) ==
    {i \in DOMAIN tokens : Covered(tokens[i]) \cap (a .. b - 1) # {}}
\* the run yields exactly one Unknown token, from its first non-whitespace
\* character to its end
OneUnknownToken(a, b) ==
    /\ Cardinality(Overlapping(a, b)) = 1
    /\ \A i \in Overlapping(a, b) :
          /\ tokens[i].kind = "Unknown"
          /\ tokens[i].span.start = FirstGarbage(a, b)
          /\ tokens[i].span.end = b
          /\ tokens[i].value = Slice(FirstGarbage(a, b), b)
\* the run lies in a token that starts with '(' or ';'
InsideCommentToken(a, b) ==
    \E i \in Overlapping(a, b) : Head(tokens[i].value) \in {"(", ";"}

PulledNow == SubSeq(tokens', Len(tokens) + 1, Len(tokens'))
LastPulled == tokens'[Len(tokens')]
\* the letter in the slot when the last pulled token was matched
PendingAtLast ==
    IF last_letter # NullToken THEN last_letter
    ELSE IF Len(PulledNow) >= 2 THEN PulledNow[Len(PulledNow) - 1]
    ELSE NullToken
\* the letter in the slot when the lexer returned None
PendingAtEnd ==
    IF last_letter # NullToken THEN last_letter
    ELSE IF PulledNow # <<>> THEN LastPulled
    ELSE NullToken
ReadsNumberWithPending ==
    /\ PulledNow # <<>>
    /\ LastPulled.kind = "Number"
    /\ PendingAtLast # NullToken
Emits(atom) ==
    /\ status' = "running"
    /\ ret_atom' = atom
    /\ atoms' = Append(atoms, atom)

\* C6: a Number token read while a letter is pending gives exactly one Word
\* atom with the pending letter's character, the number the token's text
\* denotes and the span covering both tokens, and empties the slot; "G90"
\* gives Word{'G', 90, [0,3) line 0} and then end-of-sequence.
C6_NumberWithPendingMakesWord ==
    /\ [][ReadsNumberWithPending =>
            /\ ParseF32(LastPulled.value).ok
            /\ Emits(AtomWord(Head(PendingAtLast.value),
                              ParseF32(LastPulled.value),
                              Span(PendingAtLast.span.start,
                                   LastPulled.span.end,
                                   PendingAtLast.span.line)))
            /\ last_letter' = NullToken]_vars
    /\ [](src = <<"G", "9", "0">> /\ ended >= 1 =>
            atoms = <<AtomWord("G", Float(FALSE, 90, 0), Span(0, 3, 0))>>)

\* the Word atoms with the two tokens each was formed from
WordPairs ==
    {<<k, atom_toks[k][1], atom_toks[k][2]>> :
        k \in {n \in DOMAIN atoms : atoms[n].type = "Word"}}
IsPairOf(k, i, j) ==
    /\ i < j
    /\ tokens[i].kind = "Letter" /\ tokens[j].kind = "Number"
    /\ atoms[k].letter = Head(tokens[i].value)
    /\ atoms[k].value = ParseF32(tokens[j].value)
    /\ atoms[k].span.start = tokens[i].span.start
    /\ atoms[k].span.end = tokens[j].span.end

\* C7 as stated: every Word is formed from a Letter token and the Number
\* token right after it; no token lies between the two.
C7_WordTokensAdjacent ==
    \A w \in WordPairs : IsPairOf(w[1], w[2], w[3]) /\ w[3] = w[2] + 1

\* C7 amended: every Word is formed from a Letter token and the first Number
\* token after it; no Number token lies between the two, while Comment,
\* Newline, Unknown and further Letter tokens may.
C7_WordPairsFirstNumberAfterLetter ==
    \A w \in WordPairs :
        /\ IsPairOf(w[1], w[2], w[3])
        /\ \A m \in w[2] + 1 .. w[3] - 1 : tokens[m].kind # "Number"

\* C7 witness: a Word whose letter and number have a token between them.
C7_Witness == \E w \in WordPairs : w[3] > w[2] + 1

\* the tokens between the pending letter and the token just pulled
Between ==
    TokenIndex(tokens', PendingAtLast) + 1 .. Len(tokens') - 1

\* C8: a Comment or Newline token is forwarded by the call that reads it,
\* pending letter or not, and the slot keeps its content; hence a Letter
\* followed by Comment/Newline tokens and then a Number still gives a Word,
\* whose span covers what lies between.
C8_PassThroughKeepsPending ==
    [][/\ (PulledNow # <<>> /\ LastPulled.kind \in {"Comment", "Newline"}) =>
            /\ Emits(IF LastPulled.kind = "Comment"
                     THEN AtomComment(LastPulled.value, LastPulled.span)
                     ELSE AtomOf("Newline", LastPulled))
            /\ last_letter' = PendingAtLast
       /\ (/\ ReadsNumberWithPending
           /\ Between # {}
           /\ \A m \in Between : tokens'[m].kind \in {"Comment", "Newline"}) =>
            /\ status' = "running"
            /\ ret_atom'.type = "Word"
            /\ atoms' = Append(atoms, ret_atom')
            /\ ret_atom'.span.start = PendingAtLast.span.start
            /\ ret_atom'.span.end = LastPulled.span.end
            /\ \A m \in Between :
                  Covered(tokens'[m]) \subseteq Covered(ret_atom')]_vars

\* C9: the call in which the lexer first returns None emits the pending
\* letter as BrokenWord and empties the slot, or returns None if no letter
\* is pending; every later call returns None and emits nothing.
C9_FlushOnceThenEnd ==
    [][/\ (lexer_done' /\ ~lexer_done /\ status' = "running") =>
            /\ last_letter' = NullToken
            /\ IF PendingAtEnd # NullToken
               THEN Emits(AtomOf("BrokenWord", PendingAtEnd)) /\ ended' = ended
               ELSE /\ ret_atom' = NullAtom /\ atoms' = atoms
                    /\ ended' = ended + 1
       /\ lexer_done =>
            /\ status' = "running"
            /\ ret_atom' = NullAtom /\ atoms' = atoms
            /\ ended' = ended + 1
            /\ last_letter' = NullToken /\ tokens' = tokens]_vars

\* C9 witness: a letter that stayed pending over a later token has been
\* flushed as the last atom, and two more calls have returned None.
C9_Witness ==
    /\ ended >= 2
    /\ Len(tokens) >= 2
    /\ atoms # <<>>
    /\ atoms[Len(atoms)] = AtomOf("BrokenWord", tokens[1])
    /\ last_letter = NullToken

\* no further call is made: a call has panicked, or next has been called
\* MaxExtraCalls more times after it returned None
Stopped == status = "panicked" \/ ended > MaxExtraCalls

\* C10: every call that returns tokens moves the cursor forward, so there
\* are at most as many tokens as bytes, and a run that has stopped has
\* reached end-of-sequence in the lexer and in the grouper over it.
C10_ReachesEndOfSequence ==
    /\ [][Len(tokens') > Len(tokens) =>
            current_position' > current_position]_vars
    /\ [](Len(tokens) <= SrcLen /\ Len(atoms) <= Len(tokens))
    /\ [](Stopped => lexer_done /\ ended >= 1)

\* C11: the cursor after every call, and both ends of every token span, lie
\* on a character boundary of the source, multi-byte characters included.
C11_CursorOnCharBoundary ==
    /\ IsCharBoundary(current_position)
    /\ \A i \in DOMAIN tokens :
          /\ IsCharBoundary(tokens[i].span.start)
          /\ IsCharBoundary(tokens[i].span.end)

\* the call read a Letter while a letter was pending, or a Number while none
\* was
ReadsBroken ==
    /\ PulledNow # <<>>
    /\ \/ LastPulled.kind = "Letter" /\ PendingAtLast # NullToken
       \/ LastPulled.kind = "Number" /\ PendingAtLast = NullToken

\* C12 as stated: such a token is emitted at once as BrokenWord wrapping the
\* token, and the slot holds after the call what it held before the call.
C12_BrokenWordKeepsSlotOfCall ==
    [][ReadsBroken =>
        /\ Emits(AtomOf("BrokenWord", LastPulled))
        /\ last_letter' = last_letter]_vars

\* C12 amended: such a token is emitted at once as BrokenWord wrapping the
\* token, and the slot holds after the call what it held when the token was
\* read (the same call may have stored the pending letter before it read
\* the token); a leading number such as "9.0" is the first atom, BrokenWord.
C12_BrokenWordKeepsSlot ==
    /\ [][ReadsBroken =>
            /\ Emits(AtomOf("BrokenWord", LastPulled))
            /\ last_letter' = PendingAtLast]_vars
    /\ [](src = <<"9", ".", "0">> /\ atoms # <<>> =>
            atoms[1] = AtomOf("BrokenWord",
                              Token("Number", <<"9", ".", "0">>,
                                    Span(0, 3, 0))))

\* C12 witness: a number without a letter before it was emitted as
\* BrokenWord, and the last call emitted a Letter as BrokenWord while
\* another letter stays pending.
C12_Witness ==
    /\ Len(atoms) >= 2
    /\ atoms[1].type = "BrokenWord" /\ atoms[1].token.kind = "Number"
    /\ ret_atom.type = "BrokenWord" /\ ret_atom.token.kind = "Letter"
    /\ last_letter # NullToken /\ last_letter # ret_atom.token

\* tokens i..j are a maximal run of two or more Letter tokens and token
\* j + 1 is a Number
IsLetterRunThenNumber(i, j) ==
    /\ i < j /\ j < Len(tokens)
    /\ \A m \in i .. j : tokens[m].kind = "Letter"
    /\ i = 1 \/ tokens[i - 1].kind # "Letter"
    /\ tokens[j + 1].kind = "Number"
\* the atom that carries token m
AtomCarrying(m) == {k \in DOMAIN atoms : \E n \in DOMAIN atom_toks[k] :
                                            atom_toks[k][n] = m}

\* C13: after two or more consecutive Letter tokens and a Number token,
\* every letter after the first has been emitted as BrokenWord, in order,
\* the Number is paired with the first letter of the run in a Word that
\* spans from that letter to the number, and nothing is left pending; "GG9"
\* gives BrokenWord(second 'G', [1,2)) and then Word{'G', 9} over [0,3).
C13_NumberPairsFirstLetterOfRun ==
    /\ \A i \in DOMAIN tokens : \A j \in DOMAIN tokens :
          IsLetterRunThenNumber(i, j) =>
              /\ \A m \in i + 1 .. j :
                    \E k \in AtomCarrying(m) :
                        /\ atoms[k] = AtomOf("BrokenWord", tokens[m])
                        /\ \A k2 \in AtomCarrying(m + 1) : k < k2
              /\ \E k \in DOMAIN atoms :
                    /\ atoms[k].type = "Word"
                    /\ atom_toks[k] = <<i, j + 1>>
                    /\ atoms[k].letter = Head(tokens[i].value)
                    /\ atoms[k].value = ParseF32(tokens[j + 1].value)
                    /\ atoms[k].span.start = tokens[i].span.start
                    /\ atoms[k].span.end = tokens[j + 1].span.end
              /\ j + 1 = Len(tokens) => last_letter = NullToken
    /\ src = <<"G", "G", "9">> /\ ended >= 1 =>
          atoms = <<AtomOf("BrokenWord", Token("Letter", <<"G">>, Span(1, 2, 0))),
                    AtomWord("G", Float(FALSE, 9, 0), Span(0, 3, 0))>>

\* Lexer::next is called with the cursor, whitespace skipped, at offset p
CursorAt(p) ==
    /\ status = "running"
    /\ p = skip_whitespace(current_position)
    /\ p < SrcLen
\* the first offset after p that holds one of `stops`, or the end of input
FirstStop(p, stops) ==
    CHOOSE q \in p + 1 .. SrcLen :
        /\ q = SrcLen \/ src[q + 1] \in stops
        /\ \A m \in p + 1 .. q - 1 : src[m + 1] \notin stops
\* the call returns token t and leaves the cursor at its end
Returns(t) ==
    /\ status' = "running"
    /\ ret_token' = t
    /\ tokens' = Append(tokens, t)
    /\ current_position' = t.span.end
\* a token tagged Newline that is not a line break
IsCutOffComment(t) == t.kind = "Newline" /\ ~IsGenuineNewline(t)

\* C14: at a '(' with a '\n' before any ')', the call returns a token of kind
\* Newline whose value is the text from '(' up to the '\n', leaves the cursor
\* at the '\n' and the line counter unchanged; the next call returns the
\* Newline token "\n" on the same line and only then the line is incremented.
C14_CutOffCommentThenNewline ==
    /\ [][\A p \in Offsets :
            (/\ CursorAt(p) /\ src[p + 1] = "("
             /\ FirstStop(p, {")", "\n"}) < SrcLen
             /\ src[FirstStop(p, {")", "\n"}) + 1] = "\n") =>
                LET q == FirstStop(p, {")", "\n"}) IN
                /\ Returns(Token("Newline", Slice(p, q),
                                 Span(p, q, current_line)))
                /\ current_line' = current_line]_vars
    /\ [][(/\ status = "running" /\ tokens # <<>>
           /\ IsCutOffComment(tokens[Len(tokens)])
           /\ current_position = tokens[Len(tokens)].span.end) =>
                LET t == tokens[Len(tokens)] IN
                /\ Returns(Token("Newline", <<"\n">>,
                                 Span(t.span.end, t.span.end + 1, t.span.line)))
                /\ current_line' = t.span.line + 1]_vars
    /\ [](\A i \in DOMAIN tokens :
            (i > 2 /\ IsCutOffComment(tokens[i - 2])) =>
                tokens[i].span.line = tokens[i - 2].span.line + 1)

\* C14 witness: a cut-off comment with a body, the Newline token of the line
\* break on the same line, and a token after it on the next line.
C14_Witness ==
    \E i \in DOMAIN tokens :
        /\ IsCutOffComment(tokens[i]) /\ Len(tokens[i].value) >= 2
        /\ i + 2 <= Len(tokens)
        /\ IsGenuineNewline(tokens[i + 1])
        /\ tokens[i + 1].span.line = tokens[i].span.line
        /\ tokens[i + 2].span.line = tokens[i].span.line + 1

\* C15: at a '(' whose first terminator is a ')', the call returns a Comment
\* token from '(' through that ')' and leaves the cursor right after it; at
\* a '(' with neither ')' nor '\n' before the end of input, it returns an
\* Unknown token from '(' to the end of input ("($" is one Unknown token).
C15_ParenCommentOrUnknown ==
    /\ [][\A p \in Offsets :
            (CursorAt(p) /\ src[p + 1] = "(") =>
                LET q == FirstStop(p, {")", "\n"}) IN
                /\ (q < SrcLen /\ src[q + 1] = ")") =>
                      /\ Returns(Token("Comment", Slice(p, q + 1),
                                       Span(p, q + 1, current_line)))
                      /\ current_line' = current_line
                /\ q = SrcLen =>
                      /\ Returns(Token("Unknown", Slice(p, SrcLen),
                                       Span(p, SrcLen, current_line)))
                      /\ current_line' = current_line]_vars
    /\ [](src = <<"(", "$">> /\ tokens # <<>> =>
            tokens = <<Token("Unknown", <<"(", "$">>, Span(0, 2, 0))>>)

\* C15 witness: a closed parenthesis comment with a body, and right after it
\* an unclosed '(' that runs to the end of input as an Unknown token.
C15_Witness ==
    \E i \in DOMAIN tokens :
        /\ tokens[i].kind = "Comment" /\ Head(tokens[i].value) = "("
        /\ Len(tokens[i].value) >= 3
        /\ i < Len(tokens)
        /\ tokens[i + 1].kind = "Unknown" /\ Head(tokens[i + 1].value) = "("
        /\ tokens[i + 1].span.start = tokens[i].span.end
        /\ tokens[i + 1].span.end = SrcLen

IsSemicolonComment(t) == t.kind = "Comment" /\ Head(t.value) = ";"

\* C16: at a ';' the call returns one Comment token from the ';' up to, and
\* excluding, the next '\n' or the end of input and leaves the cursor there;
\* the next call returns the '\n' as a Newline token, and the tokens after it
\* are on the next line.
C16_SemicolonComment ==
    /\ [][\A p \in Offsets :
            (CursorAt(p) /\ src[p + 1] = ";") =>
                LET q == FirstStop(p, {"\n"}) IN
                /\ Returns(Token("Comment", Slice(p, q),
                                 Span(p, q, current_line)))
                /\ current_line' = current_line]_vars
    /\ [][(/\ status = "running" /\ tokens # <<>>
           /\ IsSemicolonComment(tokens[Len(tokens)])
           /\ current_position = tokens[Len(tokens)].span.end
           /\ current_position < SrcLen) =>
                LET t == tokens[Len(tokens)] IN
                /\ Returns(Token("Newline", <<"\n">>,
                                 Span(t.span.end, t.span.end + 1, t.span.line)))
                /\ current_line' = t.span.line + 1]_vars
    /\ [](\A i \in DOMAIN tokens :
            (i > 2 /\ IsSemicolonComment(tokens[i - 2])) =>
                /\ tokens[i].span.line = tokens[i - 2].span.line + 1
                /\ tokens[i].span.start > tokens[i - 2].span.end)

\* C16 witness: a ';' comment with a body, the Newline token after it, and a
\* token on the next line.
C16_Witness ==
    \E i \in DOMAIN tokens :
        /\ IsSemicolonComment(tokens[i]) /\ Len(tokens[i].value) >= 2
        /\ i + 2 <= Len(tokens)
        /\ IsGenuineNewline(tokens[i + 1])
        /\ tokens[i + 2].span.line = tokens[i].span.line + 1

Signs == {"-", "+"}
\* a text in which a sign is only the first character, every other character
\* is a digit or a '.', and there is at most one '.'
IsNumberText(s) ==
    /\ \A k \in DOMAIN s :
          \/ s[k] \in Signs /\ k = 1
          \/ is_ascii_digit(s[k])
          \/ s[k] = "."
    /\ Cardinality({k \in DOMAIN s : s[k] = "."}) <= 1
\* the end of the longest such text that starts at p
NumberRunEnd(p) ==
    CHOOSE e \in p .. SrcLen :
        /\ IsNumberText(Slice(p, e))
        /\ \A f \in e + 1 .. SrcLen : ~IsNumberText(Slice(p, f))

\* C17: at a character of class Number the call returns a Number token that
\* is the longest run from the cursor with a sign only in first place,
\* digits, and at most one '.'; a second '.' or a later sign is left
\* unconsumed and starts the next token ("9.0." gives Number "9.0", cursor
\* at 3).
C17_NumberIsMaximalRun ==
    /\ [][\A p \in Offsets :
            (CursorAt(p) /\ TokenTypeFrom(src[p + 1]) = "Number") =>
                /\ NumberRunEnd(p) > p
                /\ Returns(Token("Number", Slice(p, NumberRunEnd(p)),
                                 Span(p, NumberRunEnd(p), current_line)))]_vars
    /\ [][(/\ status = "running" /\ tokens # <<>>
           /\ tokens[Len(tokens)].kind = "Number"
           /\ current_position = tokens[Len(tokens)].span.end
           /\ current_position < SrcLen
           /\ src[current_position + 1] \in Signs \cup {"."}) =>
                /\ tokens' = Append(tokens, ret_token')
                /\ ret_token'.kind = "Number"
                /\ ret_token'.span.start = current_position]_vars
    /\ [](src = <<"9", ".", "0", ".">> /\ tokens # <<>> =>
            tokens[1] = Token("Number", <<"9", ".", "0">>, Span(0, 3, 0)))

\* C17 witness: a Number token with a digit and a '.', ended by a second
\* '.' or by a sign, which starts the next Number token.
C17_Witness ==
    \E i \in DOMAIN tokens :
        /\ i < Len(tokens)
        /\ tokens[i].kind = "Number" /\ tokens[i + 1].kind = "Number"
        /\ \E k \in DOMAIN tokens[i].value : tokens[i].value[k] = "."
        /\ \E k \in DOMAIN tokens[i].value : is_ascii_digit(tokens[i].value[k])
        /\ Head(tokens[i + 1].value) \in Signs \cup {"."}
        /\ tokens[i + 1].span.start = tokens[i].span.end

\* atom k carries token m the way its variant carries a token
CarriesWhole(k, m) ==
    CASE atoms[k].type = "Comment" ->
            /\ tokens[m].kind = "Comment"
            /\ atoms[k] = AtomComment(tokens[m].value, tokens[m].span)
      [] atoms[k].type \in {"Newline", "Unknown"} ->
            /\ tokens[m].kind = atoms[k].type
            /\ atoms[k] = AtomOf(atoms[k].type, tokens[m])
      [] atoms[k].type = "BrokenWord" ->
            /\ tokens[m].kind \in {"Letter", "Number"}
            /\ atoms[k] = AtomOf("BrokenWord", tokens[m])
      [] OTHER -> FALSE
\* the places (atom, position) at which token m is carried
CarriedAt(m) ==
    {<<k, n>> \in (DOMAIN atoms) \X {1, 2} :
        n \in DOMAIN atom_toks[k] /\ atom_toks[k][n] = m}

\* C18: once the grouper has returned None, every token is carried by exactly
\* one atom, whole in a Comment, Newline, Unknown or BrokenWord atom or as the
\* letter or the number of one Word, and there are as many atoms as tokens
\* minus Words.
C18_EveryTokenInOneAtom ==
    ended >= 1 =>
        /\ \A m \in DOMAIN tokens : Cardinality(CarriedAt(m)) = 1
        /\ \A k \in DOMAIN atoms :
              IF atoms[k].type = "Word"
              THEN /\ Len(atom_toks[k]) = 2
                   /\ IsPairOf(k, atom_toks[k][1], atom_toks[k][2])
              ELSE /\ Len(atom_toks[k]) = 1
                   /\ CarriesWhole(k, atom_toks[k][1])
        /\ Len(atoms) = Len(tokens) - Cardinality(WordPairs)

\* C18 witness: a finished run with a Word, a BrokenWord and a forwarded
\* atom.
C18_Witness ==
    /\ ended >= 1
    /\ \E k \in DOMAIN atoms : atoms[k].type = "Word"
    /\ \E k \in DOMAIN atoms : atoms[k].type = "BrokenWord"
    /\ \E k \in DOMAIN atoms : atoms[k].type \in {"Comment", "Newline", "Unknown"}

IsAscii == \A b \in Offsets : src[b + 1] \notin {Lead, Cont}

\* C19: on ASCII input the value of every token is the source text of its
\* span, the span is non-empty and inside the source, and the call that
\* returns a token leaves the cursor at the end of its span.
C19_ValueIsSpanText ==
    /\ [](IsAscii =>
            \A i \in DOMAIN tokens :
                /\ tokens[i].value = Slice(tokens[i].span.start,
                                           tokens[i].span.end)
                /\ tokens[i].span.start < tokens[i].span.end
                /\ tokens[i].span.end <= SrcLen)
    /\ [][(IsAscii /\ tokens' # tokens) =>
            /\ tokens' = Append(tokens, ret_token')
            /\ current_position' = ret_token'.span.end]_vars

\* C19 witness: an ASCII input tokenized to the end into a Letter, a Number
\* and an Unknown token.
C19_Witness ==
    /\ IsAscii /\ ended >= 1
    /\ \E i \in DOMAIN tokens : tokens[i].kind = "Letter"
    /\ \E i \in DOMAIN tokens : tokens[i].kind = "Number"
    /\ \E i \in DOMAIN tokens : tokens[i].kind = "Unknown"

NewlineOffsets == {b \in Offsets : src[b + 1] = "\n"}

\* C20: the line of every token is the number of '\n' in the source before
\* its start; when the run has stopped every '\n' of the input has given
\* exactly one token, of value "\n"; no other token's value holds a '\n'.
C20_LineCountsSourceNewlines ==
    /\ \A i \in DOMAIN tokens :
          /\ tokens[i].span.line =
                Cardinality({b \in NewlineOffsets : b < tokens[i].span.start})
          /\ tokens[i].value # <<"\n">> =>
                \A k \in DOMAIN tokens[i].value : tokens[i].value[k] # "\n"
    /\ Stopped =>
          \A b \in NewlineOffsets :
              /\ Cardinality({i \in DOMAIN tokens :
                                 b \in Covered(tokens[i])}) = 1
              /\ \E i \in DOMAIN tokens :
                    tokens[i].value = <<"\n">> /\ tokens[i].span.start = b

====
